---- MODULE Spec2Model ----
(***************************************************************************)
(* Green-view-rate analysis pipeline of Cityscape_Analysis:                *)
(*   - GreenViewAnalyzer.calculate_green_view_rate, analyze_image and      *)
(*     analyze_batch              (src/modules/image_processing.py)        *)
(*   - WorkerThread.run, its three tasks, cancel and _cleanup_memory       *)
(*                                (src/modules/gui_interface.py)           *)
(*   - the MainWindow handlers that start, cancel and receive a run        *)
(*                                (src/modules/gui_interface.py)           *)
(* Rates are exact rationals <<numerator, denominator>>; floating-point    *)
(* rounding is outside the model.                                          *)
(***************************************************************************)
EXTENDS Integers, Sequences, FiniteSets, TLC

VARIABLES
    task,               \* WorkerThread.task_type ("none": no worker_thread yet)
    wpc,                \* position of the worker thread inside run()
    is_cancelled,       \* WorkerThread.is_cancelled
    kwargs,             \* keys still present in WorkerThread.kwargs
    image_paths,        \* analyze_batch argument image_paths
    idx,                \* 1-based loop position of analyze_batch (i + 1)
    result,             \* local `result` of the loop body of analyze_batch
    exc,                \* message of the exception being handled or propagated
    pending,            \* signals the task emits unless is_cancelled
    results,            \* local `results` of analyze_batch
    log,                \* what analyze_batch has done so far in this run
    cancelAt,           \* number of items processed when cancel() was called (-1: never)
    exitKind,           \* how the task body was left: "normal", "cancelled"
                        \* (is_cancelled was set at the test), "exception"
    cleaned,            \* run() has executed its finally: _cleanup_memory()
    sigQueue,           \* signals emitted by the worker, not yet dispatched
    gpc,                \* GUI thread: "idle", or "waiting" inside cancel_task
    analysis_results,   \* MainWindow.analysis_results
    analysis_completed, \* MainWindow.analysis_completed
    grid,               \* label grid handed to the metric reducer
    metrics,            \* what calculate_green_view_rate returned for grid
    results_data,       \* ResultExporter.results_data
    summary_stats,      \* ResultExporter.summary_stats
    stats,              \* the last call of calculate_summary_statistics on the
                        \* records as they are now: what it returned and the
                        \* summary_stats it found stored
    export_call,        \* export_to_excel as called by the running export task
    analyzer,           \* a GreenViewAnalyzer: device, processor, model, model_loaded
    call,               \* the last call made on analyzer and its outcome
    wiped,              \* the last change of results_data was a clear_data that
                        \* removed records
    mode,               \* the checked radio button: "streetview" or "local"
    enabled,            \* the buttons that are enabled, of load_model, download,
                        \* analyze, export, cancel
    download_completed, \* MainWindow.download_completed
    download_results,   \* MainWindow.download_results
    local_paths,        \* what get_local_image_paths() returns
    coordinates,        \* number of entries of MainWindow.coordinates
    model_loaded,       \* MainWindow.model_loaded
    workers,            \* the WorkerThread objects that exist
    collector,          \* MainWindow.collector: its download_records list
    window_analyzer,    \* MainWindow.analyzer: index into heap, 0 for None
    heap,               \* the GreenViewAnalyzer objects created by the window
    loaders             \* the model loading threads

vars == <<task, wpc, is_cancelled, kwargs, image_paths, idx, result, exc,
          pending, results,
          log, cancelAt, exitKind, cleaned, sigQueue, gpc, analysis_results,
          analysis_completed, grid, metrics, results_data, summary_stats, stats,
          export_call, analyzer, call, wiped, mode, enabled,
          download_completed, download_results, local_paths, coordinates,
          model_loaded, workers, collector, window_analyzer, heap, loaders>>

\* MainWindow widgets and flags, its worker objects and its loading threads
windowVars == <<mode, enabled, download_completed, download_results,
                local_paths, coordinates, model_loaded, workers, collector,
                window_analyzer, heap, loaders>>

\* state of the exporter, of the analyzer and of the window, left alone by
\* most steps
aside == <<results_data, summary_stats, stats, export_call, analyzer, call,
           wiped, windowVars>>

----------------------------------------------------------------------------
(* Bounds *)

MaxItems == 5       \* longest image list handed to analyze_batch
MaxDim == 2         \* largest height and width of a label grid

(* Program constants *)

VEGETATION_CLASS_ID == 8
NumClasses == 19
DeepCleanEvery == 5

CITYSCAPES_CLASSES ==
    [c \in 0..(NumClasses - 1) |->
        CASE c = 0 -> "road"          [] c = 1 -> "sidewalk"
          [] c = 2 -> "building"      [] c = 3 -> "wall"
          [] c = 4 -> "fence"         [] c = 5 -> "pole"
          [] c = 6 -> "traffic_light" [] c = 7 -> "traffic_sign"
          [] c = 8 -> "vegetation"    [] c = 9 -> "terrain"
          [] c = 10 -> "sky"          [] c = 11 -> "person"
          [] c = 12 -> "rider"        [] c = 13 -> "car"
          [] c = 14 -> "truck"        [] c = 15 -> "bus"
          [] c = 16 -> "train"        [] c = 17 -> "motorcycle"
          [] OTHER -> "bicycle"]

(* Class ids the modelled segmentation engine produces: road, vegetation,  *)
(* terrain.                                                                *)
SampleLabels == {0, VEGETATION_CLASS_ID, 9}

(* Label grids: h rows of w class ids *)
Grids ==
    UNION {[1..h -> [1..w -> SampleLabels]] : h \in 1..MaxDim, w \in 1..MaxDim}

NoMetrics == [none |-> TRUE]

----------------------------------------------------------------------------
(* Metric reducer: GreenViewAnalyzer.calculate_green_view_rate *)

\* segmentation_map.size
GridSize(m) == Len(m) * Len(m[1])

\* np.sum(segmentation_map == class_id)
CountClass(m, class_id) ==
    Cardinality({rc \in (1..Len(m)) \X (1..Len(m[1])) : m[rc[1]][rc[2]] = class_id})

\* (count / total_pixels) * 100
Percentage(count, total_pixels) == <<count * 100, total_pixels>>

\* variant: the loop over the class ids starts at 1
ClassCountsFromOne(m) ==
    LET present == {c \in 1..(NumClasses - 1) : CountClass(m, c) > 0}
        idOf(n) == CHOOSE c \in present : CITYSCAPES_CLASSES[c] = n
    IN  [n \in {CITYSCAPES_CLASSES[c] : c \in present} |->
            [pixels |-> CountClass(m, idOf(n)),
             percentage |-> Percentage(CountClass(m, idOf(n)), GridSize(m))]]

\* variant: the entry is written whatever the count (count >= 0)
ClassCountsAll(m) ==
    LET idOf(n) == CHOOSE c \in 0..(NumClasses - 1) : CITYSCAPES_CLASSES[c] = n
    IN  [n \in {CITYSCAPES_CLASSES[c] : c \in 0..(NumClasses - 1)} |->
            [pixels |-> CountClass(m, idOf(n)),
             percentage |-> Percentage(CountClass(m, idOf(n)), GridSize(m))]]

\* class_counts of calculate_green_view_rate
ClassCounts(m) ==
    LET present == {c \in 0..(NumClasses - 1) : CountClass(m, c) > 0}
        idOf(n) == CHOOSE c \in present : CITYSCAPES_CLASSES[c] = n
    IN  [n \in {CITYSCAPES_CLASSES[c] : c \in present} |->
            [pixels |-> CountClass(m, idOf(n)),
             percentage |-> Percentage(CountClass(m, idOf(n)), GridSize(m))]]

\* variant: counts terrain (class 9) as vegetation
calculate_green_view_rate_terrain(segmentation_map) ==
    LET total_pixels == GridSize(segmentation_map)
        vegetation_pixels == CountClass(segmentation_map, VEGETATION_CLASS_ID + 1)
    IN  [green_view_rate |-> Percentage(vegetation_pixels, total_pixels),
         vegetation_pixels |-> vegetation_pixels,
         total_pixels |-> total_pixels,
         class_distribution |-> ClassCounts(segmentation_map)]

calculate_green_view_rate(segmentation_map) ==
    LET total_pixels == GridSize(segmentation_map)
        vegetation_pixels == CountClass(segmentation_map, VEGETATION_CLASS_ID)
    IN  [green_view_rate |-> Percentage(vegetation_pixels, total_pixels),
         vegetation_pixels |-> vegetation_pixels,
         total_pixels |-> total_pixels,
         class_distribution |-> ClassCounts(segmentation_map)]

----------------------------------------------------------------------------
(* Per-image analysis: GreenViewAnalyzer.analyze_image and the records of  *)
(* analyze_batch                                                           *)

NoResult == [none |-> TRUE]

(* Label grids the segmentation engine returns inside a batch *)
BatchGrids == {<<<<0>>>>, <<<<VEGETATION_CLASS_ID>>>>}

AnalyzeKeys == {"analyzer", "image_paths", "output_dir", "exporter", "generate_images"}
DownloadKeys == {"collector", "coordinates", "save_dir"}
ExportKeys == {"exporter", "output_path"}

\* variant: the record does not keep the segmentation map
analyze_image_released(image_path, segmentation_map) ==
    LET analysis_result == calculate_green_view_rate(segmentation_map)
    IN  [green_view_rate |-> analysis_result.green_view_rate,
         vegetation_pixels |-> analysis_result.vegetation_pixels,
         total_pixels |-> analysis_result.total_pixels,
         class_distribution |-> analysis_result.class_distribution,
         image_path |-> image_path,
         original_image_path |-> image_path]

\* analysis_result.update({...}) of analyze_image, for a readable image
\* whose segmentation is segmentation_map
analyze_image(image_path, segmentation_map) ==
    LET analysis_result == calculate_green_view_rate(segmentation_map)
    IN  [green_view_rate |-> analysis_result.green_view_rate,
         vegetation_pixels |-> analysis_result.vegetation_pixels,
         total_pixels |-> analysis_result.total_pixels,
         class_distribution |-> analysis_result.class_distribution,
         image_path |-> image_path,
         original_image_path |-> image_path,
         segmentation_map |-> segmentation_map]

\* error_result of the except branch of analyze_batch
error_result(image_path, e) ==
    [original_image_path |-> image_path, error |-> e, green_view_rate |-> <<0, 1>>]

\* if (i + 1) % 5 == 0: the deep cleaning of analyze_batch
DeepCleanDue(i) == i % DeepCleanEvery = 0

AnalyzeEvent(i, ok) == [ev |-> "analyze", i |-> i, ok |-> ok]
CallbackEvent(current, total, nrec, shown) ==
    [ev |-> "callback", i |-> current, total |-> total, nrec |-> nrec, shown |-> shown]
DeepEvent(i) == [ev |-> "deep", i |-> i]

\* end of one iteration of the for loop of analyze_batch
NextPosition(i) == IF i < Len(image_paths) THEN "item" ELSE "return"

AnalyzedCount(l) == Cardinality({k \in 1..Len(l) : l[k].ev = "analyze"})

----------------------------------------------------------------------------
(* Result aggregator: ResultExporter (src/modules/result_export.py)        *)

MaxRecords == 3     \* most records put into a ResultExporter on its own

\* Rationals <<numerator, denominator>>, denominator > 0
RLt(a, b) == a[1] * b[2] < b[1] * a[2]
RGe(a, b) == ~RLt(a, b)
REq(a, b) == a[1] * b[2] = b[1] * a[2]
RAdd(a, b) == <<a[1] * b[2] + b[1] * a[2], a[2] * b[2]>>
RSub(a, b) == <<a[1] * b[2] - b[1] * a[2], a[2] * b[2]>>
RScale(a, num, den) == <<a[1] * num, a[2] * den>>

\* dict.get(key, default)
Get(d, key, default) == IF key \in DOMAIN d THEN d[key] ELSE default

\* Image paths are the numbers 1, 2, ...; NoPath stands for '' and None
NoPath == 0

\* ResultExporter._get_comprehensive_analysis_path
comprehensive_analysis_path(original_image_path) ==
    IF original_image_path = NoPath THEN <<>>
    ELSE <<"comprehensive_analysis", original_image_path>>

\* combined_result of ResultExporter.add_result; the per-class keys
\* '<class>_percentage' and '<class>_pixels' are kept as one mapping
\* class_columns (analysis_time and download_time, which are clock readings,
\* are left out)
add_result(data, download_result, analysis_result) ==
    Append(data,
        [longitude |-> Get(download_result, "lng", 0),
         latitude |-> Get(download_result, "lat", 0),
         download_success |-> Get(download_result, "success", FALSE),
         original_image_path |-> Get(download_result, "filepath", NoPath),
         comprehensive_analysis_path |->
             comprehensive_analysis_path(Get(download_result, "filepath", NoPath)),
         green_view_rate |-> Get(analysis_result, "green_view_rate", <<0, 1>>),
         vegetation_pixels |-> Get(analysis_result, "vegetation_pixels", 0),
         total_pixels |-> Get(analysis_result, "total_pixels", 0),
         download_error |-> Get(download_result, "error", ""),
         analysis_error |-> Get(analysis_result, "error", ""),
         file_size_bytes |-> Get(download_result, "file_size", 0),
         class_columns |-> Get(analysis_result, "class_distribution", <<>>)])

\* An add that stores the analysis record itself
add_local_image_result_whole(data, analysis_result) ==
    Append(data,
        [analysis_error |-> Get(analysis_result, "error", "")] @@ analysis_result)
\* combined_result of ResultExporter.add_local_image_result
add_local_image_result(data, analysis_result) ==
    LET image_path == Get(analysis_result, "image_path",
                          Get(analysis_result, "original_image_path", NoPath))
    IN  Append(data,
        [filename |-> image_path,
         image_path |-> image_path,
         original_image_path |-> image_path,
         comprehensive_analysis_path |-> comprehensive_analysis_path(image_path),
         green_view_rate |-> Get(analysis_result, "green_view_rate", <<0, 1>>),
         vegetation_pixels |-> Get(analysis_result, "vegetation_pixels", 0),
         total_pixels |-> Get(analysis_result, "total_pixels", 0),
         analysis_error |-> Get(analysis_result, "error", ""),
         class_columns |-> Get(analysis_result, "class_distribution", <<>>)])

RECURSIVE add_batch_local_results(_, _)
add_batch_local_results(data, records) ==
    IF records = <<>> THEN data
    ELSE add_batch_local_results(add_local_image_result(data, Head(records)),
                                 Tail(records))

\* ResultExporter.add_batch_results: pairs by index up to the shorter list
RECURSIVE add_batch_results(_, _, _)
add_batch_results(data, downloads, records) ==
    IF downloads = <<>> \/ records = <<>> THEN data
    ELSE add_batch_results(add_result(data, Head(downloads), Head(records)),
                           Tail(downloads), Tail(records))

\* ascending order of a series of rates
RECURSIVE Insert(_, _)
Insert(sorted, x) ==
    IF sorted = <<>> THEN <<x>>
    ELSE IF RLt(x, Head(sorted)) THEN <<x>> \o sorted
    ELSE <<Head(sorted)>> \o Insert(Tail(sorted), x)
RECURSIVE SortRates(_)
SortRates(rates) ==
    IF rates = <<>> THEN <<>> ELSE Insert(SortRates(Tail(rates)), Head(rates))

RECURSIVE SumRates(_)
SumRates(rates) ==
    IF rates = <<>> THEN <<0, 1>> ELSE RAdd(Head(rates), SumRates(Tail(rates)))

\* Series.quantile(k / 4) and Series.median() (k = 2): linear interpolation
Quantile(rates, k) ==
    LET sorted == SortRates(rates)
        pos == (Len(rates) - 1) * k
        lo == (pos \div 4) + 1
        hi == IF pos % 4 = 0 THEN lo ELSE lo + 1
    IN  RAdd(sorted[lo], RScale(RSub(sorted[hi], sorted[lo]), pos % 4, 4))

\* ((green_rates >= lo) & (green_rates < hi)).sum()
CountIn(rates, lo, hi) ==
    Cardinality({k \in 1..Len(rates) :
                    RGe(rates[k], <<lo, 1>>) /\ RLt(rates[k], <<hi, 1>>)})
\* (green_rates >= lo).sum()
CountFrom(rates, lo) ==
    Cardinality({k \in 1..Len(rates) : RGe(rates[k], <<lo, 1>>)})

EmptyStats == [k \in {} |-> 0]

\* Buckets closed above and open below: a boundary value falls in the lower one
green_view_distribution_closed_above(green_rates) ==
    LET Above(lo) == {k \in 1..Len(green_rates) : RLt(<<lo, 1>>, green_rates[k])}
    IN  [very_low |-> Len(green_rates) - Cardinality(Above(10)),
         low |-> Cardinality(Above(10) \ Above(20)),
         medium |-> Cardinality(Above(20) \ Above(30)),
         high |-> Cardinality(Above(30) \ Above(40)),
         very_high |-> Cardinality(Above(40))]
\* stats['green_view_distribution'] of calculate_summary_statistics
green_view_distribution(green_rates) ==
    [very_low |-> CountIn(green_rates, 0, 10),
     low |-> CountIn(green_rates, 10, 20),
     medium |-> CountIn(green_rates, 20, 30),
     high |-> CountIn(green_rates, 30, 40),
     very_high |-> CountFrom(green_rates, 40)]

\* ResultExporter.calculate_summary_statistics (green_view_rate_std, a
\* square root, is left out)
calculate_summary_statistics(data) ==
    IF data = <<>> THEN EmptyStats
    ELSE
    LET total_images == Len(data)
        has_download == \E k \in 1..Len(data) : "download_success" \in DOMAIN data[k]
        successful_downloads ==
            IF has_download
            THEN Cardinality({k \in 1..Len(data) :
                                 Get(data[k], "download_success", FALSE)})
            ELSE total_images
        green_rates ==
            LET counted == SelectSeq(data, LAMBDA r : RLt(<<0, 1>>, r.green_view_rate))
            IN  [k \in 1..Len(counted) |-> counted[k].green_view_rate]
        base ==
            [total_images |-> total_images,
             successful_downloads |-> successful_downloads,
             successful_analyses |-> Len(green_rates),
             download_success_rate |->
                 IF has_download THEN <<successful_downloads * 100, total_images>>
                 ELSE <<100, 1>>,
             analysis_success_rate |-> <<Len(green_rates) * 100, total_images>>]
        sorted == SortRates(green_rates)
    IN  IF Len(green_rates) = 0 THEN base
        ELSE base @@
            [green_view_rate_mean |-> RScale(SumRates(green_rates), 1, Len(green_rates)),
             green_view_rate_median |-> Quantile(green_rates, 2),
             green_view_rate_min |-> sorted[1],
             green_view_rate_max |-> sorted[Len(sorted)],
             green_view_rate_q25 |-> Quantile(green_rates, 1),
             green_view_rate_q75 |-> Quantile(green_rates, 3),
             green_view_distribution |-> green_view_distribution(green_rates)]

NoStats == [none |-> TRUE]

\* wiped after clear_data on records data
Wiped(data, was) == was \/ data # <<>>

\* self.summary_stats = stats, skipped by the early return on no records
StoredSummary(data, stored) ==
    IF data = <<>> THEN stored ELSE calculate_summary_statistics(data)

NoExport == [called |-> FALSE]

\* The step of export_to_excel that raises: none, the detail sheet, the
\* summary sheet (after its statistics were computed), the charts sheet,
\* wb.save
ExportFailures == {"none", "detail", "summary", "charts", "save"}

\* An export that does not test for an empty record list
export_to_excel_any(data, failure) ==
    [called |-> TRUE, failure |-> failure, success |-> failure = "none",
     summarized |-> failure # "detail", saved |-> failure = "none"]
\* ResultExporter.export_to_excel: the value returned (success), whether
\* _create_summary_sheet called calculate_summary_statistics and whether
\* wb.save returned
export_to_excel(data, failure) ==
    IF data = <<>>
    THEN [called |-> TRUE, failure |-> failure, success |-> FALSE,
          summarized |-> FALSE, saved |-> FALSE]
    ELSE [called |-> TRUE, failure |-> failure, success |-> failure = "none",
          summarized |-> failure # "detail", saved |-> failure = "none"]

----------------------------------------------------------------------------
(* Classifier engine: GreenViewAnalyzer (src/modules/image_processing.py)  *)

NoAnalyzer == [none |-> TRUE]
NoCall == [op |-> "none"]

\* device argument of GreenViewAnalyzer(...)
Preferences == {"None", "auto", "cpu", "cuda"}
\* torch.cuda.is_available(): True, False, or an exception
Availability == {"yes", "no", "raises"}

\* A device choice that takes an explicit 'cuda' at its word when
\* torch.cuda.is_available(), without the tensor test
get_device_trusting(device, cuda_available, smoke_ok) ==
    IF device \in {"auto", "None"}
    THEN IF cuda_available = "yes" /\ smoke_ok THEN "cuda" ELSE "cpu"
    ELSE IF device = "cuda"
    THEN IF cuda_available = "yes" THEN device ELSE "cpu"
    ELSE device
\* GreenViewAnalyzer._get_device; smoke_ok: the CUDA tensor test runs through
get_device(device, cuda_available, smoke_ok) ==
    IF device \in {"auto", "None"}
    THEN IF cuda_available = "yes" /\ smoke_ok THEN "cuda" ELSE "cpu"
    ELSE IF device = "cuda"
    THEN IF cuda_available = "yes" /\ smoke_ok THEN device ELSE "cpu"
    ELSE device

\* GreenViewAnalyzer.__init__
NewAnalyzer(device) ==
    [device |-> device, processor |-> "None", model |-> "None",
     model_loaded |-> FALSE]

\* What the steps of one load_model call do: os.makedirs, the processor's
\* from_pretrained, the model's from_pretrained with safetensors and in the
\* standard format, model.to(self.device) with eval(), model.to('cpu') with
\* eval(); TRUE: the step returns, FALSE: it raises
LoadEnvs == [dir : BOOLEAN, processor : BOOLEAN, safetensors : BOOLEAN,
             standard : BOOLEAN, move : BOOLEAN, cpu_move : BOOLEAN]

\* A load that sets model_loaded as soon as the model object exists
load_model_early_flag(a, env) ==
    IF ~env.dir \/ ~env.processor THEN [analyzer |-> a, ret |-> FALSE]
    ELSE
    LET a2 == [a EXCEPT !.processor = "loaded"]
        a3 == [a2 EXCEPT !.model = "loaded", !.model_loaded = TRUE]
        a4 == [a3 EXCEPT !.device = "cpu"]
    IN  IF ~env.safetensors /\ ~env.standard THEN [analyzer |-> a2, ret |-> FALSE]
        ELSE IF env.move
        THEN [analyzer |-> [a3 EXCEPT !.model = "eval"], ret |-> TRUE]
        ELSE IF a.device = "cpu" THEN [analyzer |-> a3, ret |-> FALSE]
        ELSE IF env.cpu_move
        THEN [analyzer |-> [a4 EXCEPT !.model = "eval"], ret |-> TRUE]
        ELSE [analyzer |-> a4, ret |-> FALSE]
\* GreenViewAnalyzer.load_model: the analyzer after the call and the value
\* returned. A handle is "None", "loaded" (from_pretrained returned) or, for
\* the model, "eval" (moved to the device and put in eval mode).
load_model(a, env) ==
    IF ~env.dir \/ ~env.processor THEN [analyzer |-> a, ret |-> FALSE]
    ELSE
    LET a2 == [a EXCEPT !.processor = "loaded"]
        a3 == [a2 EXCEPT !.model = "loaded"]
        a4 == [a3 EXCEPT !.device = "cpu"]
    IN  IF ~env.safetensors /\ ~env.standard THEN [analyzer |-> a2, ret |-> FALSE]
        ELSE IF env.move
        THEN [analyzer |-> [a3 EXCEPT !.model = "eval", !.model_loaded = TRUE],
              ret |-> TRUE]
        ELSE IF a.device = "cpu" THEN [analyzer |-> a3, ret |-> FALSE]
        ELSE IF env.cpu_move
        THEN [analyzer |-> [a4 EXCEPT !.model = "eval", !.model_loaded = TRUE],
              ret |-> TRUE]
        ELSE [analyzer |-> a4, ret |-> FALSE]

\* A segmentation that goes straight to preprocessing
segment_image_unchecked(a, readable, infer_ok) ==
    IF ~readable
    THEN [raised |-> "ValueError", read_image |-> TRUE, used_model |-> FALSE]
    ELSE IF a.processor = "None"
    THEN [raised |-> "TypeError", read_image |-> TRUE, used_model |-> FALSE]
    ELSE [raised |-> IF a.model = "None" THEN "TypeError"
                     ELSE IF infer_ok THEN "" ELSE "RuntimeError:inference",
          read_image |-> TRUE, used_model |-> a.model # "None"]
\* GreenViewAnalyzer.segment_image: the exception raised ("" for none),
\* whether the image file was opened and whether self.model was called.
\* readable: preprocess_image can load the file; infer_ok: inference runs
\* through.
segment_image(a, readable, infer_ok) ==
    IF ~a.model_loaded
    THEN [raised |-> "RuntimeError:not loaded", read_image |-> FALSE,
          used_model |-> FALSE]
    ELSE IF ~readable
    THEN [raised |-> "ValueError", read_image |-> TRUE, used_model |-> FALSE]
    ELSE [raised |-> IF infer_ok THEN "" ELSE "RuntimeError:inference",
          read_image |-> TRUE, used_model |-> TRUE]

\* GreenViewAnalyzer.analyze_image up to the return of segment_image;
\* dir_ok: os.makedirs(output_dir) returns
analyze_image_call(a, dir_ok, readable, infer_ok) ==
    IF ~a.model_loaded
    THEN [raised |-> "RuntimeError:not loaded", read_image |-> FALSE,
          used_model |-> FALSE]
    ELSE IF ~dir_ok
    THEN [raised |-> "OSError", read_image |-> FALSE, used_model |-> FALSE]
    ELSE segment_image(a, readable, infer_ok)


\* A 1 x 10 label grid with v vegetation pixels: rate 10 * v percent
TenPixelGrid(v) == <<[c \in 1..10 |-> IF c <= v THEN VEGETATION_CLASS_ID ELSE 0]>>

(* Analysis records handed to the exporter: rates 0, 10, 20, 30, 40 percent *)
(* and a failed item                                                       *)
SampleAnalysis ==
    {analyze_image(1, TenPixelGrid(v)) : v \in 0..4} \cup {error_result(1, "ValueError")}

(* Download records of BaiduStreetViewCollector.download_image *)
SampleDownloads ==
    {[success |-> TRUE, lng |-> 1, lat |-> 1, filepath |-> 1, filename |-> 1,
      file_size |-> 1],
     [success |-> FALSE, lng |-> 1, lat |-> 1, filepath |-> NoPath, error |-> "request"]}

\* MainWindow.collector before a download: no records. shared says that
\* MainWindow.download_results is the same list object as download_records
NoCollector == [download_records |-> <<>>, shared |-> FALSE]

----------------------------------------------------------------------------
Init ==
    /\ task = "none"
    /\ wpc = "none"
    /\ is_cancelled = FALSE
    /\ kwargs = {}
    /\ image_paths = <<>>
    /\ idx = 0
    /\ result = NoResult
    /\ exc = ""
    /\ pending = <<>>
    /\ results = <<>>
    /\ log = <<>>
    /\ cancelAt = -1
    /\ exitKind = "none"
    /\ cleaned = FALSE
    /\ sigQueue = <<>>
    /\ gpc = "idle"
    /\ analysis_results = <<>>
    /\ analysis_completed = FALSE
    /\ grid = <<<<0>>>>
    /\ metrics = NoMetrics
    /\ results_data = <<>>
    /\ summary_stats = EmptyStats
    /\ stats = NoStats
    /\ export_call = NoExport
    /\ analyzer = NoAnalyzer
    /\ call = NoCall
    /\ wiped = FALSE
    /\ mode = "streetview"
    /\ enabled = {"load_model"}
    /\ download_completed = FALSE
    /\ download_results = <<>>
    /\ local_paths = <<>>
    /\ coordinates = 0
    /\ model_loaded = FALSE
    /\ workers = <<>>
    /\ collector = NoCollector
    /\ window_analyzer = 0
    /\ heap = <<>>
    /\ loaders = <<>>

(* A new WorkerThread(task_type, **kwargs) followed by start() *)
NewWorker(t, keys) ==
    /\ task' = t
    /\ kwargs' = keys
    /\ is_cancelled' = FALSE
    /\ wpc' = "start"
    /\ idx' = 0
    /\ result' = NoResult
    /\ exc' = ""
    /\ pending' = <<>>
    /\ results' = <<>>
    /\ log' = <<>>
    /\ cancelAt' = -1
    /\ exitKind' = "none"
    /\ cleaned' = FALSE
    /\ export_call' = NoExport

\* The user starts a run only when no run is active and the events of the
\* previous run have been delivered.
CanStart == gpc = "idle" /\ wpc \in {"none", "done"} /\ sigQueue = <<>>

(* MainWindow.start_analysis *)
StartAnalysis ==
    /\ CanStart
    /\ \E n \in 1..MaxItems :
        image_paths' = [i \in 1..n |-> i]
    /\ analysis_results' = <<>>                 \* clear_previous_data
    /\ results_data' = <<>>                     \* exporter.clear_data()
    /\ summary_stats' = EmptyStats
    /\ wiped' = Wiped(results_data, wiped)
    /\ NewWorker("analyze", AnalyzeKeys)
    /\ UNCHANGED <<sigQueue, gpc, analysis_completed, grid, metrics, stats,
                   analyzer, call, windowVars>>

(* MainWindow.start_download *)
StartDownload ==
    /\ CanStart
    /\ analysis_results' = <<>>                 \* clear_previous_data
    /\ results_data' = <<>>                     \* exporter.clear_data()
    /\ summary_stats' = EmptyStats
    /\ wiped' = Wiped(results_data, wiped)
    /\ NewWorker("download", DownloadKeys)
    /\ UNCHANGED <<image_paths, sigQueue, gpc, analysis_completed, grid, metrics,
                   stats, analyzer, call, windowVars>>

(* MainWindow.export_results *)
StartExport ==
    /\ CanStart
    /\ analysis_completed
    /\ NewWorker("export", ExportKeys)
    /\ UNCHANGED <<image_paths, sigQueue, gpc, analysis_results,
                   analysis_completed, grid, metrics, results_data,
                   summary_stats, stats, analyzer, call, wiped, windowVars>>

workerRest == <<task, is_cancelled, image_paths, cancelAt, sigQueue, gpc,
                analysis_results, analysis_completed, grid, metrics>>

(* WorkerThread._run_analyze_task up to the call of analyze_batch *)
RunAnalyzeBegin ==
    /\ wpc = "start" /\ task = "analyze"
    /\ \/ /\ ~(AnalyzeKeys \ {"exporter", "generate_images"} \subseteq kwargs)
          /\ wpc' = "raised" /\ exc' = "KeyError"
          /\ UNCHANGED idx
       \/ /\ AnalyzeKeys \ {"exporter", "generate_images"} \subseteq kwargs
          /\ \/ wpc' = "raised" /\ exc' = "OSError" /\ UNCHANGED idx  \* os.makedirs
             \/ wpc' = "item" /\ idx' = 1 /\ UNCHANGED exc
    /\ UNCHANGED <<workerRest, kwargs, result, pending, results, log, exitKind, cleaned>>
    /\ UNCHANGED aside

(* analyze_batch: result = self.analyze_image(...); results.append(result) *)
AnalyzeItem ==
    /\ wpc = "item"
    /\ \/ \E g \in BatchGrids :
            /\ log' = Append(log, AnalyzeEvent(idx, TRUE))
            /\ result' = analyze_image(image_paths[idx], g)
            /\ results' = Append(results, result')
            /\ wpc' = "callback"
            /\ UNCHANGED exc
       \/ /\ log' = Append(log, AnalyzeEvent(idx, FALSE))
          /\ exc' = "ValueError"            \* unreadable image, inference error
          /\ wpc' = "handler"
          /\ UNCHANGED <<result, results>>
    /\ UNCHANGED <<workerRest, kwargs, idx, pending, exitKind, cleaned>>
    /\ UNCHANGED aside

(* analyze_batch: the rest of the try block after results.append(result) *)
TryCallback ==
    /\ wpc = "callback"
    /\ \/ /\ log' = (LET l == Append(log, CallbackEvent(idx, Len(image_paths),
                                                       Len(results), ~is_cancelled))
                     IN IF DeepCleanDue(idx) THEN Append(l, DeepEvent(idx)) ELSE l)
          /\ wpc' = NextPosition(idx)
          /\ idx' = idx + 1
          /\ UNCHANGED exc
       \/ /\ ~is_cancelled                   \* the callback body raises
          /\ log' = Append(log, CallbackEvent(idx, Len(image_paths), Len(results), FALSE))
          /\ exc' = "callback"
          /\ wpc' = "handler"
          /\ UNCHANGED idx
    /\ UNCHANGED <<workerRest, kwargs, result, pending, results, exitKind, cleaned>>
    /\ UNCHANGED aside

(* analyze_batch: except Exception as e *)
Handler ==
    /\ wpc = "handler"
    /\ results' = Append(results, error_result(image_paths[idx], exc))
    /\ \/ /\ log' = Append(log, CallbackEvent(idx, Len(image_paths),
                                              Len(results'), ~is_cancelled))
          /\ wpc' = NextPosition(idx)
          /\ idx' = idx + 1
          /\ UNCHANGED exc
       \/ /\ ~is_cancelled                   \* the callback body raises
          /\ log' = Append(log, CallbackEvent(idx, Len(image_paths), Len(results'), FALSE))
          /\ exc' = "callback"
          /\ wpc' = "raised"
          /\ UNCHANGED idx
    /\ UNCHANGED <<workerRest, kwargs, result, pending, exitKind, cleaned>>
    /\ UNCHANGED aside

(* _run_analyze_task: results = analyzer.analyze_batch(...) has returned *)
BatchReturn ==
    /\ wpc = "return" /\ task = "analyze"
    /\ pending' = <<[sig |-> "analysis_results_ready", results |-> results],
                    [sig |-> "task_completed", name |-> "analyze", ok |-> TRUE]>>
    /\ wpc' = "check"
    /\ UNCHANGED <<workerRest, kwargs, idx, result, exc, results, log, exitKind, cleaned>>
    /\ UNCHANGED aside

(* WorkerThread._run_download_task up to the is_cancelled test *)
RunDownload ==
    /\ wpc = "start" /\ task = "download"
    /\ \/ /\ ~(DownloadKeys \subseteq kwargs)
          /\ wpc' = "raised" /\ exc' = "KeyError"
          /\ UNCHANGED pending
       \/ /\ DownloadKeys \subseteq kwargs
          /\ \/ wpc' = "raised" /\ exc' = "download" /\ UNCHANGED pending
             \/ /\ wpc' = "check"
                /\ pending' = <<[sig |-> "task_completed", name |-> "download", ok |-> TRUE]>>
                /\ UNCHANGED exc
    /\ UNCHANGED <<workerRest, kwargs, idx, result, results, log, exitKind, cleaned>>
    /\ UNCHANGED aside

(* WorkerThread._run_export_task up to the is_cancelled test *)
RunExport ==
    /\ wpc = "start" /\ task = "export"
    /\ \/ /\ ~(ExportKeys \subseteq kwargs)
          /\ wpc' = "raised" /\ exc' = "KeyError"
          /\ UNCHANGED <<pending, export_call, summary_stats>>
       \/ /\ ExportKeys \subseteq kwargs
          /\ \E failure \in ExportFailures :
                export_call' = export_to_excel(results_data, failure)
          /\ summary_stats' = IF export_call'.summarized
                              THEN StoredSummary(results_data, summary_stats)
                              ELSE summary_stats
          /\ pending' = <<[sig |-> "task_completed", name |-> "export",
                           ok |-> export_call'.success]>>
          /\ wpc' = "check"
          /\ UNCHANGED exc
    /\ UNCHANGED <<workerRest, kwargs, idx, result, results, log, exitKind, cleaned>>
    /\ UNCHANGED <<results_data, stats, analyzer, call, wiped, windowVars>>

\* variant: the signals are emitted whatever the flag
AfterCheckAlwaysEmit(cancelled) == "emit"

\* if not self.is_cancelled: emit, else fall through to the finally blocks
AfterCheck(cancelled) == IF cancelled THEN "finally" ELSE "emit"

(* if not self.is_cancelled: of the three tasks *)
CheckCancelled ==
    /\ wpc = "check"
    /\ wpc' = AfterCheck(is_cancelled)
    /\ exitKind' = IF is_cancelled THEN "cancelled" ELSE "normal"
    /\ UNCHANGED <<workerRest, kwargs, idx, result, exc, pending, results, log, cleaned>>
    /\ UNCHANGED aside

(* the emit calls guarded by if not self.is_cancelled *)
EmitCompleted ==
    /\ wpc = "emit"
    /\ sigQueue' = sigQueue \o pending
    /\ wpc' = "finally"
    /\ UNCHANGED <<task, is_cancelled, image_paths, cancelAt, gpc, analysis_results,
                   analysis_completed, grid, metrics, kwargs, idx, result, exc,
                   pending, results, log, exitKind, cleaned>>
    /\ UNCHANGED aside

(* WorkerThread.run: except Exception as e: self.error_occurred.emit(str(e)) *)
RunExcept ==
    /\ wpc = "raised"
    /\ sigQueue' = Append(sigQueue, [sig |-> "error_occurred", msg |-> exc])
    /\ wpc' = "finally"
    /\ exitKind' = "exception"
    /\ UNCHANGED <<task, is_cancelled, image_paths, cancelAt, gpc, analysis_results,
                   analysis_completed, grid, metrics, kwargs, idx, result, exc,
                   pending, results, log, cleaned>>
    /\ UNCHANGED aside

\* WorkerThread._cleanup_memory: self.kwargs.clear()
CleanedKwargs == {}

\* variant: the cleanup sits at the end of the try block, not in finally
RunFinallyOnlyOnSuccess ==
    /\ wpc = "finally"
    /\ kwargs' = IF exitKind = "exception" THEN kwargs ELSE CleanedKwargs
    /\ cleaned' = (exitKind # "exception")
    /\ wpc' = "done"
    /\ UNCHANGED <<workerRest, idx, result, exc, pending, results, log, exitKind>>
    /\ UNCHANGED aside

(* WorkerThread.run: finally: self._cleanup_memory() *)
RunFinally ==
    /\ wpc = "finally"
    /\ kwargs' = CleanedKwargs
    /\ cleaned' = TRUE
    /\ wpc' = "done"
    /\ UNCHANGED <<workerRest, idx, result, exc, pending, results, log, exitKind>>
    /\ UNCHANGED aside

(* MainWindow.cancel_task up to self.worker_thread.wait() *)
CancelTask ==
    /\ gpc = "idle"
    /\ wpc \notin {"none", "done"}              \* worker_thread.isRunning()
    /\ is_cancelled' = TRUE                     \* WorkerThread.cancel
    /\ kwargs' = CleanedKwargs
    /\ cancelAt' = IF cancelAt = -1 THEN AnalyzedCount(log) ELSE cancelAt
    /\ gpc' = "waiting"
    /\ UNCHANGED <<task, wpc, image_paths, idx, result, exc, pending, results, log,
                   exitKind, cleaned, sigQueue, analysis_results,
                   analysis_completed, grid, metrics>>
    /\ UNCHANGED aside

(* MainWindow.cancel_task after wait() has returned *)
CancelReturn ==
    /\ gpc = "waiting"
    /\ wpc = "done"
    /\ gpc' = "idle"
    /\ UNCHANGED <<task, wpc, is_cancelled, kwargs, image_paths, idx, result, exc,
                   pending, results, log, cancelAt, exitKind, cleaned, sigQueue,
                   analysis_results, analysis_completed, grid, metrics>>
    /\ UNCHANGED aside

(* The GUI event loop delivers the next queued signal to its slot:        *)
(* on_analysis_results_ready, on_task_completed, on_error_occurred        *)
Dispatch ==
    /\ gpc = "idle"
    /\ sigQueue # <<>>
    /\ sigQueue' = Tail(sigQueue)
    /\ IF Head(sigQueue).sig = "analysis_results_ready"
       THEN /\ analysis_results' = Head(sigQueue).results
            /\ analysis_completed' = TRUE
            \* local-image mode: exporter.add_batch_local_results
            /\ results_data' = add_batch_local_results(results_data, analysis_results')
            \* update_statistics: exporter.calculate_summary_statistics()
            /\ summary_stats' = StoredSummary(results_data', summary_stats)
            /\ wiped' = (wiped /\ results_data' = results_data)
       ELSE UNCHANGED <<analysis_results, analysis_completed, results_data,
                        summary_stats, wiped>>
    /\ UNCHANGED <<task, wpc, is_cancelled, kwargs, image_paths, idx, result, exc,
                   pending, results, log, cancelAt, exitKind, cleaned, gpc,
                   grid, metrics, stats, export_call, analyzer, call, windowVars>>

Next ==
    \/ StartAnalysis
    \/ StartDownload
    \/ StartExport
    \/ RunAnalyzeBegin
    \/ AnalyzeItem
    \/ TryCallback
    \/ Handler
    \/ BatchReturn
    \/ RunDownload
    \/ RunExport
    \/ CheckCancelled
    \/ EmitCompleted
    \/ RunExcept
    \/ RunFinally
    \/ CancelTask
    \/ CancelReturn
    \/ Dispatch

Spec == Init /\ [][Next]_vars

----------------------------------------------------------------------------
(* The metric reducer on its own: every grid up to MaxDim x MaxDim *)

InitReduce ==
    /\ Init!1 /\ Init!2 /\ Init!3 /\ Init!4 /\ Init!5 /\ Init!6 /\ Init!7
    /\ Init!8 /\ Init!9 /\ Init!10 /\ Init!11 /\ Init!12 /\ Init!13 /\ Init!14
    /\ Init!15 /\ Init!16 /\ Init!17 /\ Init!18
    /\ Init!21 /\ Init!22 /\ Init!23 /\ Init!24 /\ Init!25 /\ Init!26
    /\ Init!27 /\ Init!28 /\ Init!29 /\ Init!30 /\ Init!31 /\ Init!32 /\ Init!33
    /\ Init!34 /\ Init!35 /\ Init!36 /\ Init!37 /\ Init!38 /\ Init!39
    /\ grid \in Grids
    /\ metrics = NoMetrics

Reduce ==
    /\ metrics = NoMetrics
    /\ metrics' = calculate_green_view_rate(grid)
    /\ UNCHANGED <<task, wpc, is_cancelled, kwargs, image_paths, idx, result, exc,
                   pending, results, log, cancelAt, exitKind, cleaned, sigQueue,
                   gpc, analysis_results, analysis_completed, grid>>
    /\ UNCHANGED aside

NextReduce == Reduce

SpecReduce == InitReduce /\ [][NextReduce]_vars

----------------------------------------------------------------------------
(* A ResultExporter on its own: records added one at a time, cleared and   *)
(* summarised in any order                                                 *)

InitExporter ==
    /\ Init!1 /\ Init!2 /\ Init!3 /\ Init!4 /\ Init!5 /\ Init!6 /\ Init!7
    /\ Init!8 /\ Init!9 /\ Init!10 /\ Init!11 /\ Init!12 /\ Init!13 /\ Init!14
    /\ Init!15 /\ Init!16 /\ Init!17 /\ Init!18 /\ Init!19 /\ Init!20
    /\ Init!21 /\ Init!22 /\ Init!23 /\ Init!24 /\ Init!25 /\ Init!26
    /\ Init!27 /\ Init!28 /\ Init!29 /\ Init!30 /\ Init!31 /\ Init!32 /\ Init!33
    /\ Init!34 /\ Init!35 /\ Init!36 /\ Init!37 /\ Init!38 /\ Init!39

notExporter == <<task, wpc, is_cancelled, kwargs, image_paths, idx, result, exc,
                 pending, results, log, cancelAt, exitKind, cleaned, sigQueue,
                 gpc, analysis_results, analysis_completed, grid, metrics,
                 export_call, analyzer, call, windowVars>>

(* ResultExporter.add_result *)
AddResult ==
    /\ Len(results_data) < MaxRecords
    /\ \E download_result \in SampleDownloads, analysis_result \in SampleAnalysis :
          results_data' = add_result(results_data, download_result, analysis_result)
    /\ stats' = NoStats
    /\ wiped' = FALSE
    /\ UNCHANGED <<summary_stats, notExporter>>

(* ResultExporter.add_local_image_result *)
AddLocalImageResult ==
    /\ Len(results_data) < MaxRecords
    /\ \E analysis_result \in SampleAnalysis :
          results_data' = add_local_image_result(results_data, analysis_result)
    /\ stats' = NoStats
    /\ wiped' = FALSE
    /\ UNCHANGED <<summary_stats, notExporter>>

(* ResultExporter.clear_data *)
ClearData ==
    /\ results_data' = <<>>
    /\ summary_stats' = EmptyStats
    /\ stats' = NoStats
    /\ wiped' = Wiped(results_data, wiped)
    /\ UNCHANGED notExporter

\* A summary that hands back the stored summary_stats when there is one
SummarizeCached ==
    /\ stats' = [returned |-> IF summary_stats # EmptyStats THEN summary_stats
                              ELSE calculate_summary_statistics(results_data),
                 replaced |-> summary_stats]
    /\ summary_stats' = stats'.returned
    /\ UNCHANGED <<results_data, wiped, notExporter>>
(* A call of ResultExporter.calculate_summary_statistics *)
Summarize ==
    /\ stats' = [returned |-> calculate_summary_statistics(results_data),
                 replaced |-> summary_stats]
    /\ summary_stats' = StoredSummary(results_data, summary_stats)
    /\ UNCHANGED <<results_data, wiped, notExporter>>

NextExporter == AddResult \/ AddLocalImageResult \/ ClearData \/ Summarize

SpecExporter == InitExporter /\ [][NextExporter]_vars

----------------------------------------------------------------------------
(* A ResultExporter fed by batches: add_batch_results and                  *)
(* add_batch_local_results (a batch of one is an add_result or an          *)
(* add_local_image_result), clear_data and summaries in any order          *)

MaxBatch == 2       \* longest list handed to a batch add

SeqsUpTo(S, n) == UNION {[1..k -> S] : k \in 0..n}

(* Analysis records of a batch: a Success record, which carries its label *)
(* grid, and a Failed record                                               *)
BatchAnalysis == {analyze_image(1, TenPixelGrid(2)), error_result(1, "ValueError")}

InitBatches ==
    /\ Init!1 /\ Init!2 /\ Init!3 /\ Init!4 /\ Init!5 /\ Init!6 /\ Init!7
    /\ Init!8 /\ Init!9 /\ Init!10 /\ Init!11 /\ Init!12 /\ Init!13 /\ Init!14
    /\ Init!15 /\ Init!16 /\ Init!17 /\ Init!18 /\ Init!19 /\ Init!20
    /\ Init!21 /\ Init!22 /\ Init!23 /\ Init!24 /\ Init!25 /\ Init!26
    /\ Init!27 /\ Init!28 /\ Init!29 /\ Init!30 /\ Init!31 /\ Init!32 /\ Init!33
    /\ Init!34 /\ Init!35 /\ Init!36 /\ Init!37 /\ Init!38 /\ Init!39

(* ResultExporter.add_batch_results *)
AddBatchResults ==
    /\ \E downloads \in SeqsUpTo(SampleDownloads, MaxBatch),
          records \in SeqsUpTo(BatchAnalysis, MaxBatch) :
          /\ Len(add_batch_results(results_data, downloads, records)) <= MaxRecords
          /\ results_data' = add_batch_results(results_data, downloads, records)
    /\ stats' = IF results_data' = results_data THEN stats ELSE NoStats
    /\ wiped' = (wiped /\ results_data' = results_data)
    /\ UNCHANGED <<summary_stats, notExporter>>

(* ResultExporter.add_batch_local_results *)
AddBatchLocalResults ==
    /\ \E records \in SeqsUpTo(BatchAnalysis, MaxBatch) :
          /\ Len(results_data) + Len(records) <= MaxRecords
          /\ results_data' = add_batch_local_results(results_data, records)
    /\ stats' = IF results_data' = results_data THEN stats ELSE NoStats
    /\ wiped' = (wiped /\ results_data' = results_data)
    /\ UNCHANGED <<summary_stats, notExporter>>

NextBatches == AddBatchResults \/ AddBatchLocalResults \/ ClearData \/ Summarize

SpecBatches == InitBatches /\ [][NextBatches]_vars

----------------------------------------------------------------------------
(* A GreenViewAnalyzer on its own: constructed once, then load_model,      *)
(* segment_image and analyze_image called in any order                     *)

InitEngine ==
    /\ Init!1 /\ Init!2 /\ Init!3 /\ Init!4 /\ Init!5 /\ Init!6 /\ Init!7
    /\ Init!8 /\ Init!9 /\ Init!10 /\ Init!11 /\ Init!12 /\ Init!13 /\ Init!14
    /\ Init!15 /\ Init!16 /\ Init!17 /\ Init!18 /\ Init!19 /\ Init!20
    /\ Init!21 /\ Init!22 /\ Init!23 /\ Init!24 /\ Init!25 /\ Init!26
    /\ Init!27 /\ Init!28 /\ Init!29 /\ Init!30 /\ Init!31 /\ Init!32 /\ Init!33
    /\ Init!34 /\ Init!35 /\ Init!36 /\ Init!37 /\ Init!38 /\ Init!39

notEngine == <<task, wpc, is_cancelled, kwargs, image_paths, idx, result, exc,
               pending, results, log, cancelAt, exitKind, cleaned, sigQueue,
               gpc, analysis_results, analysis_completed, grid, metrics,
               results_data, summary_stats, stats, export_call, wiped,
               windowVars>>

(* GreenViewAnalyzer(device=...) *)
Construct ==
    /\ analyzer = NoAnalyzer
    /\ \E device \in Preferences, cuda_available \in Availability,
          smoke_ok \in BOOLEAN :
          /\ call' = [op |-> "_get_device", device |-> device,
                      cuda_available |-> cuda_available, smoke_ok |-> smoke_ok,
                      ret |-> get_device(device, cuda_available, smoke_ok)]
          /\ analyzer' = NewAnalyzer(call'.ret)
    /\ UNCHANGED notEngine

(* analyzer.load_model() *)
LoadModel ==
    /\ analyzer # NoAnalyzer
    /\ \E env \in LoadEnvs :
          /\ analyzer' = load_model(analyzer, env).analyzer
          /\ call' = [op |-> "load_model", env |-> env, before |-> analyzer,
                      ret |-> load_model(analyzer, env).ret,
                      after_failure |-> call.op = "load_model" /\ ~call.ret]
    /\ UNCHANGED notEngine

(* analyzer.segment_image(image_path) *)
SegmentImage ==
    /\ analyzer # NoAnalyzer
    /\ \E readable \in BOOLEAN, infer_ok \in BOOLEAN :
          call' = [op |-> "segment_image", ready |-> analyzer.model_loaded,
                   out |-> segment_image(analyzer, readable, infer_ok)]
    /\ UNCHANGED <<analyzer, notEngine>>

(* analyzer.analyze_image(image_path, output_dir) *)
AnalyzeImage ==
    /\ analyzer # NoAnalyzer
    /\ \E dir_ok \in BOOLEAN, readable \in BOOLEAN, infer_ok \in BOOLEAN :
          call' = [op |-> "analyze_image", ready |-> analyzer.model_loaded,
                   out |-> analyze_image_call(analyzer, dir_ok, readable, infer_ok)]
    /\ UNCHANGED <<analyzer, notEngine>>

NextEngine == Construct \/ LoadModel \/ SegmentImage \/ AnalyzeImage

SpecEngine == InitEngine /\ [][NextEngine]_vars

----------------------------------------------------------------------------
(* Model loading of the MainWindow: load_model and on_device_changed on the *)
(* GUI thread, load_model_thread and reload_thread in the background       *)

MaxAnalyzers == 3   \* most GreenViewAnalyzer objects created in a session
MaxLoaders == 2     \* most loading threads alive at a time

\* device_map values of load_model and on_device_changed
DeviceChoices == {"auto", "cpu", "cuda"}

\* Outcomes of a load in the window: every step succeeds, or the model
\* cannot be loaded in either format
WindowLoadEnvs ==
    {env \in LoadEnvs :
        /\ env.dir /\ env.processor /\ env.move /\ env.cpu_move
        /\ env.safetensors = env.standard}

InitLoader ==
    /\ Init!1 /\ Init!2 /\ Init!3 /\ Init!4 /\ Init!5 /\ Init!6 /\ Init!7
    /\ Init!8 /\ Init!9 /\ Init!10 /\ Init!11 /\ Init!12 /\ Init!13 /\ Init!14
    /\ Init!15 /\ Init!16 /\ Init!17 /\ Init!18 /\ Init!19 /\ Init!20
    /\ Init!21 /\ Init!22 /\ Init!23 /\ Init!24 /\ Init!25 /\ Init!26
    /\ Init!27 /\ Init!28 /\ Init!29 /\ Init!30 /\ Init!31 /\ Init!32 /\ Init!33
    /\ Init!34 /\ Init!35 /\ Init!36 /\ Init!37 /\ Init!38 /\ Init!39

notLoader == <<task, wpc, is_cancelled, kwargs, image_paths, idx, result, exc,
               pending, results, log, cancelAt, exitKind, cleaned, sigQueue,
               gpc, analysis_results, analysis_completed, grid, metrics,
               results_data, summary_stats, stats, export_call, analyzer, call,
               wiped, mode, download_completed, download_results, local_paths,
               coordinates, workers, collector>>

\* threading.Thread(target=load_model_thread / reload_thread).start()
NewLoader(kind, device) ==
    [kind |-> kind, pc |-> "construct", device |-> device, obj |-> 0]

RemoveAt(seq, i) == SubSeq(seq, 1, i - 1) \o SubSeq(seq, i + 1, Len(seq))

(* MainWindow.load_model, called by a click on load_model_btn *)
LoadModelClicked ==
    /\ "load_model" \in enabled
    /\ Len(loaders) < MaxLoaders
    /\ enabled' = enabled \ {"load_model"}
    /\ \E device \in DeviceChoices :          \* device_combo.currentText()
          loaders' = Append(loaders, NewLoader("load", device))
    /\ UNCHANGED <<model_loaded, window_analyzer, heap, notLoader>>

(* MainWindow.on_device_changed with reload_model_with_device *)
DeviceChanged ==
    /\ window_analyzer # 0
    /\ \E device \in DeviceChoices :
          IF model_loaded
          THEN /\ Len(loaders) < MaxLoaders
               /\ model_loaded' = FALSE
               /\ enabled' = enabled \ {"load_model"}
               /\ loaders' = Append(loaders, NewLoader("reload", device))
               /\ UNCHANGED <<window_analyzer, heap>>
          ELSE /\ Len(heap) < MaxAnalyzers
               /\ \E cuda_available \in {"yes", "no"} :
                     heap' = Append(heap,
                                 NewAnalyzer(get_device(device, cuda_available, TRUE)))
               /\ window_analyzer' = Len(heap')
               /\ UNCHANGED <<model_loaded, enabled, loaders>>
    /\ UNCHANGED notLoader

(* load_model_thread / reload_thread:                                     *)
(* self.analyzer = GreenViewAnalyzer(device=...)                           *)
LoaderConstruct ==
    /\ \E i \in 1..Len(loaders) :
          /\ loaders[i].pc = "construct"
          /\ Len(heap) < MaxAnalyzers
          /\ \E cuda_available \in {"yes", "no"} :
                heap' = Append(heap,
                    NewAnalyzer(get_device(loaders[i].device, cuda_available, TRUE)))
          /\ window_analyzer' = Len(heap')
          /\ loaders' = [loaders EXCEPT ![i].pc = "call"]
    /\ UNCHANGED <<model_loaded, enabled, notLoader>>

(* load_model_thread / reload_thread: self.analyzer is read and load_model *)
(* is entered on that object                                               *)
LoaderCall ==
    /\ \E i \in 1..Len(loaders) :
          /\ loaders[i].pc = "call"
          /\ loaders' = [loaders EXCEPT ![i].pc = "loading",
                                        ![i].obj = window_analyzer]
    /\ UNCHANGED <<model_loaded, enabled, window_analyzer, heap, notLoader>>

\* analyze_btn.setEnabled(True) of load_model_thread after a successful load
AnalyzeReady ==
    IF mode = "streetview" THEN download_completed ELSE local_paths # <<>>

(* load_model_thread / reload_thread: load_model returns and the thread    *)
(* runs to its end                                                         *)
LoaderFinish ==
    /\ \E i \in 1..Len(loaders), env \in WindowLoadEnvs :
          LET t == loaders[i]
              loaded == load_model(heap[t.obj], env)
          IN  /\ t.pc = "loading"
              /\ heap' = [heap EXCEPT ![t.obj] = loaded.analyzer]
              /\ model_loaded' = (model_loaded \/ loaded.ret)
              /\ enabled' =
                    IF t.kind = "reload" THEN enabled \cup {"load_model"}
                    ELSE IF ~loaded.ret THEN enabled \cup {"load_model"}
                    ELSE IF AnalyzeReady THEN enabled \cup {"analyze"}
                    ELSE enabled
              /\ loaders' = RemoveAt(loaders, i)
    /\ UNCHANGED <<window_analyzer, notLoader>>

NextLoader ==
    \/ LoadModelClicked
    \/ DeviceChanged
    \/ LoaderConstruct
    \/ LoaderCall
    \/ LoaderFinish

SpecLoader == InitLoader /\ [][NextLoader]_vars

----------------------------------------------------------------------------
(* The MainWindow and its WorkerThreads: the buttons, the slots of the     *)
(* worker's signals, and every WorkerThread that is still running. The API *)
(* key and the save directory are filled in, every image can be analysed,  *)
(* and no step of a task or of an export raises.                           *)

MaxCoords == 1      \* most coordinates parsed
MaxPaths == 1       \* most images in a chosen folder
MaxWorkers == 2     \* most WorkerThreads running at a time
MaxSignals == 4     \* most signals queued or still to be emitted

InitGui ==
    /\ Init!1 /\ Init!2 /\ Init!3 /\ Init!4 /\ Init!5 /\ Init!6 /\ Init!7
    /\ Init!8 /\ Init!9 /\ Init!10 /\ Init!11 /\ Init!12 /\ Init!13 /\ Init!14
    /\ Init!15 /\ Init!16 /\ Init!17 /\ Init!18 /\ Init!19 /\ Init!20
    /\ Init!21 /\ Init!22 /\ Init!23 /\ Init!24 /\ Init!25 /\ Init!26
    /\ Init!27 /\ Init!28 /\ Init!29 /\ Init!30 /\ Init!31 /\ Init!32 /\ Init!33
    /\ Init!34 /\ Init!35 /\ Init!36 /\ Init!37 /\ Init!38 /\ Init!39

\* the worker and the histories of the other specifications
notGui == <<task, wpc, is_cancelled, kwargs, image_paths, idx, result, exc,
            pending, results, log, cancelAt, exitKind, cleaned, grid, metrics,
            stats, export_call, analyzer, call, wiped, window_analyzer, heap,
            loaders>>

\* reset_ui_state, and the else branch of on_task_completed: the buttons
\* enabled afterwards
reset_ui_state(buttons, completed_download, completed_analysis) ==
    (buttons \ {"cancel"})
    \cup (IF mode = "streetview"
          THEN (IF coordinates > 0 THEN {"download"} ELSE {})
               \cup (IF model_loaded /\ completed_download THEN {"analyze"} ELSE {})
          ELSE IF model_loaded /\ local_paths # <<>> THEN {"analyze"} ELSE {})
    \cup (IF completed_analysis THEN {"export"} ELSE {})

\* exporter.clear_data() of clear_previous_data and on_mode_changed
ClearExporter ==
    /\ results_data' = <<>>
    /\ summary_stats' = EmptyStats

\* self.download_results.clear() of clear_previous_data
ClearedCollector ==
    IF collector.shared THEN [collector EXCEPT !.download_records = <<>>]
    ELSE collector

\* self.worker_thread = WorkerThread(...); self.worker_thread.start()
NewThread(name, paths, coords) ==
    [task |-> name, pc |-> "start", is_cancelled |-> FALSE, image_paths |-> paths,
     coordinates |-> coords, latest |-> TRUE, collects |-> name = "download",
     out |-> <<>>]

\* the threads that lose the window's reference to them, and, on a new
\* collector, the reference to its collector
Superseded(ws, new_collector) ==
    [k \in 1..Len(ws) |->
        [ws[k] EXCEPT !.latest = FALSE,
                      !.collects = ws[k].collects /\ ~new_collector]]

\* room for one more thread and its signals
CanStartThread ==
    /\ gpc = "idle"
    /\ Len(workers) < MaxWorkers
    /\ Len(sigQueue) + 2 * Len(workers) + 2 <= MaxSignals

(* MainWindow.load_model and its thread, for a load that succeeds *)
ModelLoaded ==
    /\ gpc = "idle"
    /\ "load_model" \in enabled
    /\ model_loaded' = TRUE
    /\ enabled' = (enabled \ {"load_model"})
                  \cup (IF AnalyzeReady THEN {"analyze"} ELSE {})
    /\ UNCHANGED <<mode, download_completed, download_results, local_paths,
                   coordinates, workers, collector, sigQueue, gpc,
                   analysis_results, analysis_completed, results_data,
                   summary_stats, notGui>>

(* MainWindow.parse_coordinates *)
parse_coordinates ==
    /\ gpc = "idle"
    /\ mode = "streetview"
    /\ \E n \in 1..MaxCoords :
          /\ coordinates' = n
          /\ enabled' = enabled \cup {"download"}
    /\ UNCHANGED <<mode, download_completed, download_results, local_paths,
                   model_loaded, workers, collector, sigQueue, gpc,
                   analysis_results, analysis_completed, results_data,
                   summary_stats, notGui>>

(* MainWindow.on_mode_changed *)
on_mode_changed ==
    /\ gpc = "idle"
    /\ mode' = IF mode = "streetview" THEN "local" ELSE "streetview"
    /\ analysis_completed' = FALSE
    /\ IF mode' = "streetview"
       THEN /\ download_completed' = FALSE
            /\ enabled' = (enabled \ {"download", "analyze", "export"})
                          \cup (IF coordinates > 0 THEN {"download"} ELSE {})
       ELSE /\ enabled' = (enabled \ {"analyze", "export"})
                          \cup (IF model_loaded /\ local_paths # <<>>
                                THEN {"analyze"} ELSE {})
            /\ UNCHANGED download_completed
    /\ ClearExporter
    /\ UNCHANGED <<download_results, local_paths, coordinates, model_loaded,
                   workers, collector, sigQueue, gpc, analysis_results,
                   notGui>>

(* MainWindow.browse_single_image with update_local_image_count *)
browse_single_image ==
    /\ gpc = "idle"
    /\ mode = "local"
    /\ local_paths' = <<1>>
    /\ enabled' = IF model_loaded THEN enabled \cup {"analyze"}
                  ELSE enabled \ {"analyze"}
    /\ UNCHANGED <<mode, download_completed, download_results, coordinates,
                   model_loaded, workers, collector, sigQueue, gpc,
                   analysis_results, analysis_completed, results_data,
                   summary_stats, notGui>>

(* MainWindow.browse_image_folder with update_local_image_count *)
browse_image_folder ==
    /\ gpc = "idle"
    /\ mode = "local"
    /\ \E n \in 0..MaxPaths :
          /\ local_paths' = [k \in 1..n |-> k]
          /\ enabled' = IF model_loaded /\ n > 0 THEN enabled \cup {"analyze"}
                        ELSE enabled \ {"analyze"}
    /\ UNCHANGED <<mode, download_completed, download_results, coordinates,
                   model_loaded, workers, collector, sigQueue, gpc,
                   analysis_results, analysis_completed, results_data,
                   summary_stats, notGui>>

(* MainWindow.start_download *)
start_download ==
    /\ CanStartThread
    /\ mode = "streetview"
    /\ "download" \in enabled
    /\ coordinates > 0
    /\ download_results' = <<>>                \* clear_previous_data
    /\ analysis_results' = <<>>
    /\ ClearExporter
    /\ collector' = NoCollector                \* BaiduStreetViewCollector(ak)
    /\ workers' = Append(Superseded(workers, TRUE),
                         NewThread("download", <<>>, coordinates))
    /\ enabled' = (enabled \ {"download"}) \cup {"cancel"}
    /\ UNCHANGED <<mode, download_completed, local_paths, coordinates,
                   model_loaded, sigQueue, gpc, analysis_completed,
                   notGui>>

\* image_paths of start_analysis
DownloadedPaths ==
    LET good == SelectSeq(download_results,
                          LAMBDA r : r.success /\ r.filepath # NoPath)
    IN  [k \in 1..Len(good) |-> good[k].filepath]

(* MainWindow.start_analysis *)
start_analysis ==
    /\ CanStartThread
    /\ "analyze" \in enabled
    /\ model_loaded
    /\ mode = "streetview" => download_completed
    /\ LET paths == IF mode = "streetview" THEN DownloadedPaths ELSE local_paths
       IN  /\ paths # <<>>
           /\ workers' = Append(Superseded(workers, FALSE),
                                NewThread("analyze", paths, 0))
    /\ download_results' = <<>>                \* clear_previous_data
    /\ collector' = ClearedCollector
    /\ analysis_results' = <<>>
    /\ ClearExporter
    /\ enabled' = (enabled \ {"analyze"}) \cup {"cancel"}
    /\ UNCHANGED <<mode, download_completed, local_paths, coordinates,
                   model_loaded, sigQueue, gpc, analysis_completed,
                   notGui>>

(* MainWindow.export_results, with a file chosen in the dialog *)
export_results ==
    /\ CanStartThread
    /\ "export" \in enabled
    /\ analysis_completed
    /\ workers' = Append(Superseded(workers, FALSE), NewThread("export", <<>>, 0))
    /\ enabled' = (enabled \ {"export"}) \cup {"cancel"}
    /\ UNCHANGED <<mode, download_completed, download_results, local_paths,
                   coordinates, model_loaded, collector, sigQueue, gpc,
                   analysis_results, analysis_completed, results_data,
                   summary_stats, notGui>>

\* self.worker_thread.isRunning()
WorkerThreadRunning == \E k \in 1..Len(workers) : workers[k].latest

(* MainWindow.cancel_task up to wait(): WorkerThread.cancel *)
cancel_task ==
    /\ gpc = "idle"
    /\ "cancel" \in enabled
    /\ WorkerThreadRunning
    /\ workers' = [k \in 1..Len(workers) |->
                      IF workers[k].latest
                      THEN [workers[k] EXCEPT !.is_cancelled = TRUE]
                      ELSE workers[k]]
    /\ gpc' = "waiting"
    /\ UNCHANGED <<mode, enabled, download_completed, download_results,
                   local_paths, coordinates, model_loaded, collector, sigQueue,
                   analysis_results, analysis_completed, results_data,
                   summary_stats, notGui>>

(* MainWindow.cancel_task after wait(): reset_ui_state *)
cancel_task_return ==
    /\ gpc = "waiting"
    /\ ~WorkerThreadRunning
    /\ gpc' = "idle"
    /\ enabled' = reset_ui_state(enabled, download_completed, analysis_completed)
    /\ UNCHANGED <<mode, download_completed, download_results, local_paths,
                   coordinates, model_loaded, workers, collector, sigQueue,
                   analysis_results, analysis_completed, results_data,
                   summary_stats, notGui>>

\* The outcomes of download_image: the image is saved, the request fails,
\* the answer is not an image (its record is returned but not kept)
DownloadOutcomes == {"ok", "request", "notimage"}

\* the record download_image appends to download_records
download_image(c, outcome) ==
    IF outcome = "ok"
    THEN [success |-> TRUE, lng |-> c, lat |-> c, filepath |-> c, filename |-> c,
          file_size |-> 1]
    ELSE [success |-> FALSE, lng |-> c, lat |-> c, filepath |-> NoPath,
          error |-> "request"]

\* the records download_batch leaves in download_records
download_batch(coords, outcome) ==
    LET kept == SelectSeq([c \in 1..coords |-> c],
                          LAMBDA c : outcome[c] # "notimage")
    IN  [k \in 1..Len(kept) |-> download_image(kept[k], outcome[kept[k]])]

\* the results analyze_batch returns: one record per path
analyze_batch(paths) ==
    [k \in 1..Len(paths) |-> analyze_image(paths[k], TenPixelGrid(2))]

\* the thread has ended: it leaves the running threads
Ended(i) == workers' = RemoveAt(workers, i)

\* the task is done and its signals are ready to be emitted
Checked(i, signals) ==
    workers' = [workers EXCEPT ![i].pc = "check", ![i].out = signals]

(* WorkerThread.run after cancel(): kwargs is empty, the task raises        *)
(* KeyError and run emits error_occurred                                    *)
WorkerKeyError ==
    /\ \E i \in 1..Len(workers) :
          /\ workers[i].pc = "start"
          /\ workers[i].is_cancelled
          /\ Ended(i)
    /\ sigQueue' = Append(sigQueue, [sig |-> "error_occurred", msg |-> "KeyError"])
    /\ UNCHANGED <<mode, enabled, download_completed, download_results,
                   local_paths, coordinates, model_loaded, collector, gpc,
                   analysis_results, analysis_completed, results_data,
                   summary_stats, notGui>>

(* WorkerThread._run_download_task up to its check of is_cancelled *)
WorkerDownload ==
    /\ \E i \in 1..Len(workers) :
          /\ workers[i].pc = "start"
          /\ workers[i].task = "download"
          /\ ~workers[i].is_cancelled
          /\ \E outcome \in [1..workers[i].coordinates -> DownloadOutcomes] :
                LET records == download_batch(workers[i].coordinates, outcome)
                IN  IF workers[i].collects
                    THEN /\ collector' =
                               [collector EXCEPT !.download_records = @ \o records]
                         /\ download_results' =
                               IF collector.shared
                               THEN collector'.download_records
                               ELSE download_results
                    ELSE UNCHANGED <<collector, download_results>>
          /\ Checked(i, <<[sig |-> "task_completed", name |-> "download",
                           ok |-> TRUE]>>)
    /\ UNCHANGED <<mode, enabled, download_completed, local_paths, coordinates,
                   model_loaded, sigQueue, gpc, analysis_results,
                   analysis_completed, results_data, summary_stats, notGui>>

(* WorkerThread._run_analysis_task up to its check of is_cancelled *)
WorkerAnalyze ==
    /\ \E i \in 1..Len(workers) :
          /\ workers[i].pc = "start"
          /\ workers[i].task = "analyze"
          /\ ~workers[i].is_cancelled
          /\ Checked(i, <<[sig |-> "analysis_results_ready",
                           results |-> analyze_batch(workers[i].image_paths)],
                          [sig |-> "task_completed", name |-> "analyze",
                           ok |-> TRUE]>>)
    /\ UNCHANGED <<mode, enabled, download_completed, download_results,
                   local_paths, coordinates, model_loaded, collector, sigQueue,
                   gpc, analysis_results, analysis_completed, results_data,
                   summary_stats, notGui>>

(* WorkerThread._run_export_task up to its check of is_cancelled *)
WorkerExport ==
    /\ \E i \in 1..Len(workers) :
          /\ workers[i].pc = "start"
          /\ workers[i].task = "export"
          /\ ~workers[i].is_cancelled
          /\ Checked(i, <<[sig |-> "task_completed", name |-> "export",
                           ok |-> export_to_excel(results_data, "none").success]>>)
    /\ summary_stats' = IF export_to_excel(results_data, "none").summarized
                        THEN StoredSummary(results_data, summary_stats)
                        ELSE summary_stats
    /\ UNCHANGED <<mode, enabled, download_completed, download_results,
                   local_paths, coordinates, model_loaded, collector, sigQueue,
                   gpc, analysis_results, analysis_completed, results_data,
                   notGui>>

(* the end of the task: if not self.is_cancelled, the signals are emitted *)
WorkerFinish ==
    /\ \E i \in 1..Len(workers) :
          /\ workers[i].pc = "check"
          /\ sigQueue' = IF workers[i].is_cancelled THEN sigQueue
                         ELSE sigQueue \o workers[i].out
          /\ Ended(i)
    /\ UNCHANGED <<mode, enabled, download_completed, download_results,
                   local_paths, coordinates, model_loaded, collector, gpc,
                   analysis_results, analysis_completed, results_data,
                   summary_stats, notGui>>

\* the event loop hands the next queued signal to its slot
Delivered(sig) ==
    /\ gpc = "idle"
    /\ sigQueue # <<>>
    /\ Head(sigQueue).sig = sig
    /\ sigQueue' = Tail(sigQueue)

(* MainWindow.on_analysis_results_ready with update_statistics *)
on_analysis_results_ready ==
    /\ Delivered("analysis_results_ready")
    /\ analysis_results' = Head(sigQueue).results
    /\ analysis_completed' = TRUE
    /\ results_data' =
          IF mode = "streetview"
          THEN add_batch_results(results_data, download_results, analysis_results')
          ELSE add_batch_local_results(results_data, analysis_results')
    /\ summary_stats' = StoredSummary(results_data', summary_stats)
    /\ enabled' = enabled \cup {"export"}
    /\ UNCHANGED <<mode, download_completed, download_results, local_paths,
                   coordinates, model_loaded, workers, collector, gpc,
                   notGui>>

(* MainWindow.on_task_completed *)
on_task_completed ==
    /\ Delivered("task_completed")
    /\ IF Head(sigQueue).name = "download"
       THEN /\ download_results' = collector.download_records
            /\ collector' = [collector EXCEPT !.shared = TRUE]
            /\ download_completed' = TRUE
            /\ enabled' = reset_ui_state(
                              IF model_loaded THEN enabled \cup {"analyze"}
                              ELSE enabled,
                              TRUE, analysis_completed)
       ELSE /\ enabled' = reset_ui_state(enabled, download_completed,
                                         analysis_completed)
            /\ UNCHANGED <<download_results, collector, download_completed>>
    /\ UNCHANGED <<mode, local_paths, coordinates, model_loaded, workers, gpc,
                   analysis_results, analysis_completed, results_data,
                   summary_stats, notGui>>

(* MainWindow.on_error_occurred *)
on_error_occurred ==
    /\ Delivered("error_occurred")
    /\ enabled' = reset_ui_state(enabled, download_completed, analysis_completed)
    /\ UNCHANGED <<mode, download_completed, download_results, local_paths,
                   coordinates, model_loaded, workers, collector, gpc,
                   analysis_results, analysis_completed, results_data,
                   summary_stats, notGui>>

NextGui ==
    \/ ModelLoaded
    \/ parse_coordinates
    \/ on_mode_changed
    \/ browse_single_image
    \/ browse_image_folder
    \/ start_download
    \/ start_analysis
    \/ export_results
    \/ cancel_task
    \/ cancel_task_return
    \/ WorkerKeyError
    \/ WorkerDownload
    \/ WorkerAnalyze
    \/ WorkerExport
    \/ WorkerFinish
    \/ on_analysis_results_ready
    \/ on_task_completed
    \/ on_error_occurred

SpecGui == InitGui /\ [][NextGui]_vars

----------------------------------------------------------------------------
(* Properties *)

Callbacks(l) == SelectSeq(l, LAMBDA e : e.ev = "callback")
Position(l, e) == CHOOSE k \in 1..Len(l) : l[k] = e
Failed(r) == "error" \in DOMAIN r
Sources(rs) == [k \in 1..Len(rs) |-> rs[k].original_image_path]
\* items whose analyze_image raised
FailedItems == {log[k].i : k \in {j \in 1..Len(log) : log[j].ev = "analyze" /\ ~log[j].ok}}
BatchReturned == task = "analyze" /\ wpc = "return"

\* C1: the records analyze_batch returns carry the input paths, element by
\* element and in the input order, failed items at their own positions.
C1_BatchOrder == BatchReturned => Sources(results) = image_paths

\* C2: a failing item never aborts analyze_batch; a batch of N items returns
\* N records, Failed (error, rate 0) exactly for the items whose analysis
\* failed and Success (no error field) for all others.
C2_PartialFailure ==
    (task = "analyze" /\ idx >= 1 /\ wpc \in {"return", "raised"}) =>
        /\ wpc = "return"
        /\ AnalyzedCount(log) = Len(image_paths)
        /\ Len(results) = Len(image_paths)
        /\ \A k \in 1..Len(results) :
              /\ Failed(results[k]) <=> k \in FailedItems
              /\ Failed(results[k]) => results[k].green_view_rate = <<0, 1>>

\* C3: once cancel() has been called after k items were processed, no further
\* item is analysed and the batch returns exactly those k records.
C3_CancelStopsBatch ==
    (task = "analyze" /\ cancelAt >= 1) =>
        /\ AnalyzedCount(log) <= cancelAt
        /\ wpc = "return" => Len(results) = cancelAt

C5_NoExceptionLeavesBatch == (task = "analyze" /\ wpc = "raised") => idx = 0

\* C6: with a batch of N items the callback has been called exactly once per
\* item when the batch returns, with current = 1..N in this order and
\* total = N, each call after the record of its item was appended and before
\* the next item is analysed.
C6_CallbackOncePerItem ==
    /\ \A e \in {log[k] : k \in 1..Len(log)} :
          e.ev = "callback" =>
            /\ e.total = Len(image_paths)
            /\ e.nrec >= e.i
            /\ \A f \in {log[k] : k \in 1..Len(log)} :
                  (f.ev = "analyze" /\ f.i > e.i) => Position(log, e) < Position(log, f)
    /\ \A k \in 1..Len(Callbacks(log)) : Callbacks(log)[k].i = k
    /\ BatchReturned => Len(Callbacks(log)) = Len(image_paths)

C8_DeepPassEveryFifth ==
    \A i \in 1..Len(image_paths) :
        (task = "analyze" /\ i % DeepCleanEvery = 0 /\ idx > i)
        => \E k \in 1..Len(log) : log[k] = DeepEvent(i)

\* C9: a worker run that has ended has executed _cleanup_memory in run(),
\* whether the task completed, raised or was cancelled.
C9_CleanupOnEveryExit ==
    wpc = "done" => (cleaned /\ kwargs = {} /\ exitKind \in {"normal", "cancelled", "exception"})

C9_Witness ==
    /\ task = "analyze" /\ wpc = "done" /\ cleaned
    /\ exitKind = "cancelled" /\ Len(results) >= 1

\* C10: for a non-empty grid total_pixels is the number of cells,
\* vegetation_pixels the number of cells labelled 8 and
\* green_view_rate = 100 * vegetation_pixels / total_pixels, so that
\* vegetation_pixels <= total_pixels and 0 <= green_view_rate <= 100.
Cells(g) == {rc \in (1..MaxDim + 1) \X (1..MaxDim + 1) :
                rc[1] \in DOMAIN g /\ rc[2] \in DOMAIN g[rc[1]]}
C10_GreenViewRate ==
    metrics # NoMetrics =>
        LET veg == Cardinality({rc \in Cells(grid) : grid[rc[1]][rc[2]] = 8})
            rate == metrics.green_view_rate
        IN  /\ metrics.total_pixels = Cardinality(Cells(grid))
            /\ metrics.vegetation_pixels = veg
            /\ rate[2] > 0
            /\ rate[1] * metrics.total_pixels = 100 * veg * rate[2]
            /\ metrics.vegetation_pixels <= metrics.total_pixels
            /\ 0 <= rate[1] /\ rate[1] <= 100 * rate[2]

C10_Witness ==
    /\ metrics # NoMetrics
    /\ metrics.total_pixels = 4 /\ metrics.vegetation_pixels = 1
    /\ metrics.green_view_rate = <<100, 4>>

\* C11: the pixel counts of the class_distribution entries sum to
\* total_pixels and their percentages sum to 100.
RECURSIVE SumPixels(_, _)
SumPixels(dist, names) ==
    IF names = {} THEN 0
    ELSE LET n == CHOOSE x \in names : TRUE
         IN  dist[n].pixels + SumPixels(dist, names \ {n})
RECURSIVE SumPercentage(_, _)
\* numerator of the sum of the percentages, over the denominator total
SumPercentage(dist, names) ==
    IF names = {} THEN 0
    ELSE LET n == CHOOSE x \in names : TRUE
         IN  dist[n].percentage[1] + SumPercentage(dist, names \ {n})
C11_DistributionSums ==
    metrics # NoMetrics =>
        LET dist == metrics.class_distribution
        IN  /\ SumPixels(dist, DOMAIN dist) = metrics.total_pixels
            /\ \A n \in DOMAIN dist : dist[n].percentage[2] = metrics.total_pixels
            /\ SumPercentage(dist, DOMAIN dist) = 100 * metrics.total_pixels

C11_Witness ==
    /\ metrics # NoMetrics
    /\ DOMAIN metrics.class_distribution = {"road", "vegetation", "terrain"}
    /\ metrics.total_pixels = 4

\* C12: class_distribution has an entry for a class exactly when its id
\* occurs in the grid; the entry holds the number of occurrences and
\* 100 * pixels / total_pixels, and no entry has a zero count.
C12_DistributionEntries ==
    metrics # NoMetrics =>
        LET dist == metrics.class_distribution
            occ(c) == Cardinality({rc \in Cells(grid) : grid[rc[1]][rc[2]] = c})
        IN  /\ \A c \in 0..(NumClasses - 1) :
                  /\ CITYSCAPES_CLASSES[c] \in DOMAIN dist <=> occ(c) >= 1
                  /\ occ(c) >= 1 =>
                      /\ dist[CITYSCAPES_CLASSES[c]].pixels = occ(c)
                      /\ dist[CITYSCAPES_CLASSES[c]].percentage[2] > 0
                      /\ dist[CITYSCAPES_CLASSES[c]].percentage[1] * Cardinality(Cells(grid))
                            = 100 * occ(c) * dist[CITYSCAPES_CLASSES[c]].percentage[2]
            /\ DOMAIN dist \subseteq {CITYSCAPES_CLASSES[c] : c \in 0..(NumClasses - 1)}
            /\ \A n \in DOMAIN dist : dist[n].pixels > 0

C12_Witness ==
    /\ metrics # NoMetrics
    /\ DOMAIN metrics.class_distribution = {"road", "vegetation"}
    /\ metrics.class_distribution["road"].pixels = 3
    /\ metrics.class_distribution["vegetation"].percentage = <<100, 4>>

\* C13 (as claimed): a record is counted as a successful analysis exactly
\* when it has no analysis error, a rate of 0 included.
ErrorFree(data) == {k \in 1..Len(data) : data[k].analysis_error = ""}
C13_CountsErrorFreeRecords ==
    (stats # NoStats /\ results_data # <<>>) =>
        stats.returned.successful_analyses = Cardinality(ErrorFree(results_data))

\* C14: every rate counted as successful (rate > 0) is in exactly one of the
\* buckets [0,10), [10,20), [20,30), [30,40), >= 40, a boundary value in the
\* upper one, and the five counts sum to successful_analyses.
Counted(data) == {k \in 1..Len(data) : data[k].green_view_rate[1] > 0}
BucketOf(rate) ==
    LET tens == rate[1] \div (rate[2] * 10)
    IN  IF tens >= 4 THEN 4 ELSE tens
InBucket(data, b) ==
    Cardinality({k \in Counted(data) : BucketOf(data[k].green_view_rate) = b})
C14_HalfOpenBuckets ==
    (stats # NoStats /\ "green_view_distribution" \in DOMAIN stats.returned) =>
        LET d == stats.returned.green_view_distribution
        IN  /\ d.very_low = InBucket(results_data, 0)
            /\ d.low = InBucket(results_data, 1)
            /\ d.medium = InBucket(results_data, 2)
            /\ d.high = InBucket(results_data, 3)
            /\ d.very_high = InBucket(results_data, 4)
            /\ d.very_low + d.low + d.medium + d.high + d.very_high
                  = stats.returned.successful_analyses

C14_Witness ==
    /\ Len(results_data) = 3
    /\ \A k \in 1..3 : results_data[k].green_view_rate = <<k * 100, 10>>
    /\ stats # NoStats
    /\ stats.returned.green_view_distribution =
          [very_low |-> 0, low |-> 1, medium |-> 1, high |-> 1, very_high |-> 0]

\* C15: a call of calculate_summary_statistics leaves results_data as it is
\* and what it returns is made of the current records only: the empty
\* summary when there are none, otherwise their number, the number of rates
\* above 0 among them, and statistics present exactly when there is such a
\* rate, with the minimum and the maximum taken among those rates.
OfCurrentRecords(summary, data) ==
    IF data = <<>> THEN summary = EmptyStats
    ELSE /\ summary.total_images = Len(data)
         /\ summary.successful_analyses = Cardinality(Counted(data))
         /\ "green_view_rate_min" \in DOMAIN summary <=> Counted(data) # {}
         /\ Counted(data) # {} =>
              /\ \E k \in Counted(data) :
                    REq(summary.green_view_rate_min, data[k].green_view_rate)
              /\ \E k \in Counted(data) :
                    REq(summary.green_view_rate_max, data[k].green_view_rate)
              /\ \A k \in Counted(data) :
                    /\ RGe(data[k].green_view_rate, summary.green_view_rate_min)
                    /\ RGe(summary.green_view_rate_max, data[k].green_view_rate)
              /\ RGe(summary.green_view_rate_mean, summary.green_view_rate_min)
              /\ RGe(summary.green_view_rate_max, summary.green_view_rate_mean)
C15_SummaryOfCurrentRecords ==
    [][stats' # NoStats =>
          /\ results_data' = results_data
          /\ OfCurrentRecords(stats'.returned, results_data')]_vars

\* a summary of two records asked of an exporter that stored the summary of
\* its first record
C15_Witness ==
    /\ stats # NoStats
    /\ Len(results_data) = 2
    /\ stats.replaced # EmptyStats
    /\ stats.replaced.total_images = 1
    /\ stats.returned.total_images = 2
    /\ stats.returned.successful_analyses = 1
    /\ summary_stats = stats.returned

\* C17: once the export task has called export_to_excel the worker is not
\* in its exception path; the call returned False on an empty record list
\* and whenever a step raised, True only when the file was saved; every
\* signal of the run is task_completed('export', success) with that value
\* (a run found cancelled at the test emits none).
ExportSignal == [sig |-> "task_completed", name |-> "export",
                 ok |-> export_call.success]
C17_ExportFailureIsAResult ==
    (task = "export" /\ export_call.called) =>
        /\ wpc # "raised" /\ exc = "" /\ exitKind # "exception"
        /\ results_data = <<>> => ~export_call.success
        /\ export_call.failure # "none" => ~export_call.success
        /\ export_call.success <=> export_call.saved
        /\ \A k \in 1..Len(sigQueue) : sigQueue[k] = ExportSignal
        /\ pending = <<ExportSignal>>
        /\ exitKind = "cancelled" => sigQueue = <<>>

C17_Witness ==
    /\ task = "export" /\ export_call.called
    /\ results_data # <<>>
    /\ export_call.failure = "save" /\ ~export_call.success
    /\ wpc = "done"
    /\ sigQueue = <<ExportSignal>>

\* C18: a call of segment_image or analyze_image made while model_loaded is
\* false raises the not-loaded RuntimeError without opening the image and
\* without calling the model.
C18_RefusedWhenNotReady ==
    (call.op \in {"segment_image", "analyze_image"} /\ ~call.ready) =>
        /\ call.out.raised = "RuntimeError:not loaded"
        /\ ~call.out.read_image
        /\ ~call.out.used_model

\* analyze_image refused on an analyzer whose load failed after the processor
C18_Witness ==
    /\ call.op = "analyze_image" /\ ~call.ready
    /\ analyzer.processor = "loaded" /\ ~analyzer.model_loaded
    /\ call.out.raised = "RuntimeError:not loaded"

\* C19 (as claimed): after a load_model call that failed the engine is not
\* Ready and both handles are unset.
C19_FailedLoadLeavesNoHandle ==
    (call.op = "load_model" /\ ~call.ret) =>
        /\ ~analyzer.model_loaded
        /\ analyzer.processor = "None"
        /\ analyzer.model = "None"

\* C19 (amended): a load_model call that fails leaves model_loaded as it was
\* before the call and each handle either as it was or newly loaded; a call
\* whose steps succeed returns True with the engine Ready, whatever earlier
\* calls left behind.
StepsSucceed(env, device) ==
    /\ env.dir /\ env.processor
    /\ env.safetensors \/ env.standard
    /\ env.move \/ (device # "cpu" /\ env.cpu_move)
Ready(a) == a.model_loaded /\ a.processor = "loaded" /\ a.model = "eval"
C19_RetryAfterFailedLoad ==
    call.op = "load_model" =>
        /\ ~call.ret =>
              /\ analyzer.model_loaded = call.before.model_loaded
              /\ analyzer.processor \in {call.before.processor, "loaded"}
              /\ analyzer.model \in {call.before.model, "loaded"}
        /\ StepsSucceed(call.env, call.before.device) <=> call.ret
        /\ call.ret => Ready(analyzer)

\* a load that succeeds right after a load that failed past the processor
C19_Witness ==
    /\ call.op = "load_model" /\ call.after_failure
    /\ call.before.processor = "loaded" /\ ~call.before.model_loaded
    /\ call.ret /\ Ready(analyzer)

\* C20: _get_device returns 'cuda' exactly when the preference is not 'cpu',
\* CUDA is available and the tensor test succeeds, and 'cpu' otherwise; a
\* load_model whose move to a non-CPU device fails continues on 'cpu' and
\* fails only if the move to 'cpu' fails as well.
C20_DeviceFallsBackToCpu ==
    /\ call.op = "_get_device" =>
          /\ call.ret \in {"cpu", "cuda"}
          /\ call.ret = "cuda" <=>
                /\ call.device # "cpu"
                /\ call.cuda_available = "yes"
                /\ call.smoke_ok
    /\ (/\ call.op = "load_model"
        /\ call.before.device # "cpu"
        /\ call.env.dir /\ call.env.processor
        /\ call.env.safetensors \/ call.env.standard
        /\ ~call.env.move) =>
          /\ analyzer.device = "cpu"
          /\ call.ret <=> call.env.cpu_move

\* an explicit 'cuda' whose tensor test fails
C20_Witness ==
    /\ call.op = "_get_device"
    /\ call.device = "cuda" /\ call.cuda_available = "yes" /\ ~call.smoke_ok
    /\ call.ret = "cpu" /\ analyzer.device = "cpu"

\* C21: the cancelled flag of a worker instance, once set, stays set; after
\* cancel was requested on a run the run emits no task_completed and no
\* analysis_results_ready; a finished instance is not run again (the next
\* run is a new WorkerThread).
CompletionSignals(q) ==
    Len(SelectSeq(q, LAMBDA m : m.sig \in {"task_completed", "analysis_results_ready"}))
C21_ExclusiveTerminalStates ==
    [][/\ (is_cancelled /\ wpc' # "start") =>
             /\ is_cancelled'
             /\ CompletionSignals(sigQueue') <= CompletionSignals(sigQueue)
       /\ wpc = "done" => wpc' \in {"done", "start"}]_vars

\* C22: while the GUI thread is inside cancel_task no item of the running
\* batch is analysed, so the handler does not wait for remaining items.
C22_GuiNeverWaitsForItems ==
    [][(gpc = "waiting" /\ task = "analyze") =>
          AnalyzedCount(log') = AnalyzedCount(log)]_vars

\* C24: no error_occurred event comes from a cancellation: the KeyError
\* raised on the keyword arguments that cancel() cleared is never emitted.
C24_CancelIsNotAnError ==
    \A k \in 1..Len(sigQueue) :
        sigQueue[k].sig = "error_occurred" => sigQueue[k].msg # "KeyError"

\* C27: the result list of analyze_batch never holds two records of the same
\* input item, whatever the progress callback does.
C27_OneRecordPerItem ==
    task = "analyze" =>
        \A i \in 1..Len(image_paths) :
            Cardinality({k \in 1..Len(results) :
                            results[k].original_image_path = image_paths[i]}) <= 1

\* C29: whenever analysis_completed is true the exporter holds records.
C29_ExportableMeansRecords == analysis_completed => results_data # <<>>

\* C25: no record of results_data holds a segmentation map, and from a
\* clear_data until the next add results_data and summary_stats are empty
\* and calculate_summary_statistics returns the empty summary.
C25_NoGridAndClearDiscardsAll ==
    /\ \A k \in 1..Len(results_data) :
          "segmentation_map" \notin DOMAIN results_data[k]
    /\ wiped =>
          /\ results_data = <<>>
          /\ summary_stats = EmptyStats
          /\ stats # NoStats => stats.returned = EmptyStats

\* a summary asked of an exporter whose records were cleared after a summary
C25_Witness ==
    /\ wiped
    /\ stats # NoStats
    /\ stats.returned = EmptyStats
    /\ stats.replaced = EmptyStats
    /\ results_data = <<>>

\* C30: whenever MainWindow.model_loaded is true, MainWindow.analyzer refers
\* to an analyzer whose model_loaded is true.
C30_ReadinessAgrees ==
    model_loaded => (window_analyzer # 0 /\ heap[window_analyzer].model_loaded)

\* a queued analysis_results_ready signal is handed to its slot
AnalysisDelivered ==
    /\ gpc = "idle"
    /\ sigQueue # <<>>
    /\ Head(sigQueue).sig = "analysis_results_ready"
    /\ sigQueue' = Tail(sigQueue)

\* C23: at most one WorkerThread is running at any time.
C23_OneWorkerAtATime == Len(workers) <= 1

\* C26: when the results of an analysis run over N images are delivered, the
\* exporter holds exactly N records, one per analysed image, in processing
\* order, in street-view mode and in local-image mode.
C26_AggregatorHoldsTheRun ==
    [][AnalysisDelivered =>
          LET run == Head(sigQueue).results
          IN  /\ Len(results_data') = Len(run)
              /\ \A k \in 1..Len(run) :
                    results_data'[k].original_image_path = run[k].original_image_path]_vars

\* C28: in street-view mode add_batch_results pairs each analysis record
\* with the download record of the same image and drops no analysis record.
C28_PairsTheSameImage ==
    [][(AnalysisDelivered /\ mode = "streetview") =>
          LET run == Head(sigQueue).results
          IN  /\ Len(download_results) >= Len(run)
              /\ \A i \in 1..Len(run) :
                    i <= Len(download_results) =>
                        download_results[i].filepath = run[i].original_image_path]_vars

====
